---- MODULE Spec2Model ----
(***************************************************************************)
(* Model of equation_processor: the core of src/src/lib.rs (the name       *)
(* sanitizer, the CSV and Markdown parsers with their duplicate-name       *)
(* counters, the render pipeline with its batch orchestrator, the file     *)
(* type detection and run_cli) and the frame update of src/src/gui.rs      *)
(* with its render thread.                                                 *)
(*                                                                         *)
(* Text is a sequence of one-character strings.  A parser call is one      *)
(* action that computes the whole result as the code computes it; the      *)
(* render pipeline is one action per blocking step, because each step is   *)
(* an external effect with its own outcome; a GUI frame is one action per  *)
(* section, and the render thread steps between them.                      *)
(***************************************************************************)
EXTENDS Integers, Sequences, FiniteSets, TLC

VARIABLES
    text,       \* input text: a raw name (Equation::new) or a Markdown document
    ntok,       \* number of input pieces written so far (into text or path)
    file,       \* the items of BufReader::lines() of the CSV file
    ppc,        \* "input" while the input is written, else the function that returned
    parsed,     \* the Vec<Equation> the last call returned
    eqs,        \* render: the slice handed to render_equations / the record rendered
    del,        \* render: delete_intermediates
    caller,     \* render: "none", "render_equations" or "direct" (a lone Equation::render)
    active,     \* render_equations: the filtered Vec<&Equation>, as indices into eqs
    idx,        \* render_equations: position of the for loop in active
    rpc,        \* position inside Equation::render
    dirExists,  \* the output directory exists
    fs,         \* files of the output directory: <<name, extension>>
    log,        \* history of the current call: what was done, for which record
    ret,        \* result of the current call: "none", "Ok", "Err"
    path,       \* run_cli: the input_file path
    cpc,        \* run_cli: "input" while the path is written, then the next step
    cret,       \* run_cli: "none", "Ok", "IoErr" or "Unsupported"
    did,        \* run_cli: what the call did so far (parsers called, I/O errors met)
    equations,        \* GUI: self.equations
    processing,       \* GUI: self.processing
    progress_rx,      \* GUI: self.progress_rx, 0 for None, else the channel it receives from
    error_message,    \* GUI: self.error_message ("None" for None)
    success_message,  \* GUI: self.success_message ("None" for None)
    output_dir,       \* GUI: self.output_dir is Some
    fpc,              \* GUI: the section of update() the next step runs
    workers,          \* GUI: the threads spawned so far, in order
    channels          \* GUI: the mpsc channels created so far, one per thread

parseVars == <<text, ntok, file, ppc, parsed>>
renderVars == <<eqs, del, caller, active, idx, rpc, dirExists, fs, log, ret>>
cliVars == <<path, cpc, cret, did>>
guiVars == <<equations, processing, progress_rx, error_message, success_message,
             output_dir, fpc, workers, channels>>
otherVars == <<cliVars, guiVars>>
vars == <<text, ntok, file, ppc, parsed,
          eqs, del, caller, active, idx, rpc, dirExists, fs, log, ret,
          path, cpc, cret, did,
          equations, processing, progress_rx, error_message, success_message,
          output_dir, fpc, workers, channels>>

\* run_cli before its call.
InitCliVars ==
    /\ path = <<>>
    /\ cpc = "input"
    /\ cret = "none"
    /\ did = {}

NoMessage == "None"

\* EquationProcessorApp::new: the Default values, before the first frame.
InitGuiVars ==
    /\ equations = <<>>
    /\ processing = FALSE
    /\ progress_rx = 0
    /\ error_message = NoMessage
    /\ success_message = NoMessage
    /\ output_dir = FALSE
    /\ fpc = "poll"
    /\ workers = <<>>
    /\ channels = <<>>

\* The state before any input is written and before any call.
Init ==
    /\ text = <<>>
    /\ ntok = 0
    /\ file = <<>>
    /\ ppc = "input"
    /\ parsed = <<>>
    /\ eqs = <<>>
    /\ del = FALSE
    /\ caller = "none"
    /\ active = <<>>
    /\ idx = 0
    /\ rpc = "none"
    /\ dirExists = FALSE
    /\ fs = {}
    /\ log = <<>>
    /\ ret = "none"
    /\ InitCliVars
    /\ InitGuiVars

\* ---------------------------------------------------------------- bounds
MaxName == 3        \* characters of a raw name given to Equation::new
MaxLines == 4       \* lines of a CSV file (the first is the header)
MaxTokens == 5      \* pieces of a Markdown document
MaxEqs == 3         \* records of a render batch
MaxPath == 3        \* pieces of an input file path
MaxWorkers == 2     \* render threads the GUI starts

\* ------------------------------------------------------------ characters
Upper == <<"A","B","C","D","E","F","G","H","I","J","K","L","M",
           "N","O","P","Q","R","S","T","U","V","W","X","Y","Z">>
Lower == <<"a","b","c","d","e","f","g","h","i","j","k","l","m",
           "n","o","p","q","r","s","t","u","v","w","x","y","z">>
Digits == <<"0","1","2","3","4","5","6","7","8","9">>

Range(s) == { s[i] : i \in DOMAIN s }

\* The characters the class [A-Za-z0-9_.] of sanitize_filename's regex holds.
NameClass == Range(Upper) \cup Range(Lower) \cup Range(Digits) \cup {"_", "."}

\* char::is_whitespace, restricted to the ASCII white space the inputs use.
WhiteSpace == {" ", "\t", "\n", "\r", "\f"}

\* u8::to_ascii_lowercase, as eq_ignore_ascii_case applies it.
to_ascii_lowercase(c) ==
    IF \E i \in DOMAIN Upper : Upper[i] = c
    THEN Lower[CHOOSE i \in DOMAIN Upper : Upper[i] = c]
    ELSE c

eq_ignore_ascii_case(a, b) ==
    /\ Len(a) = Len(b)
    /\ \A i \in DOMAIN a : to_ascii_lowercase(a[i]) = to_ascii_lowercase(b[i])

RECURSIVE trim_start(_)
trim_start(s) ==
    IF s # <<>> /\ Head(s) \in WhiteSpace THEN trim_start(Tail(s)) ELSE s

RECURSIVE trim_end(_)
trim_end(s) ==
    IF s # <<>> /\ s[Len(s)] \in WhiteSpace
    THEN trim_end(SubSeq(s, 1, Len(s) - 1)) ELSE s

\* str::trim
trim(s) == trim_end(trim_start(s))

\* Display of an integer, as format!("{c}") prints the counter.
RECURSIVE Display(_)
Display(n) ==
    IF n < 10 THEN <<Digits[n + 1]>>
    ELSE Display(n \div 10) \o <<Digits[(n % 10) + 1]>>

DefaultName == <<"d","e","f","a","u","l","t","_","e","q","u","a","t","i","o","n">>
Yes == <<"y","e","s">>
No == <<"n","o">>

\* ------------------------------------------------------------- Equation
\* re.replace_all(name, "_"): every character outside the class becomes "_".
ReplaceAll(name) ==
    [i \in DOMAIN name |-> IF name[i] \in NameClass THEN name[i] ELSE "_"]

\* The sanitizer without its fallback for an empty result.
sanitize_filename_NoFallback(name) == ReplaceAll(name)

sanitize_filename(name) ==
    LET s == ReplaceAll(name)
    IN IF s = <<>> THEN DefaultName ELSE s

\* Equation::new
NewEquation(act, name, body) ==
    [active |-> act, name |-> sanitize_filename(name), body |-> body]

\* ------------------------------------------- Equation::new on a raw name
\* Characters a raw name is typed from: inside and outside the class.
NameAlphabet == {"a", "Z", "0", "_", ".", " ", "-", "$", "/"}

TypeChar ==
    /\ ppc = "input"
    /\ ntok < MaxName
    /\ \E c \in NameAlphabet : text' = Append(text, c)
    /\ ntok' = ntok + 1
    /\ UNCHANGED <<file, ppc, parsed>>
    /\ UNCHANGED renderVars
    /\ UNCHANGED otherVars

CallNew ==
    /\ ppc = "input"
    /\ \E a \in BOOLEAN : parsed' = <<NewEquation(a, text, <<"x">>)>>
    /\ ppc' = "new"
    /\ UNCHANGED <<text, ntok, file>>
    /\ UNCHANGED renderVars
    /\ UNCHANGED otherVars

\* The caller drops the result and starts over with a new input.
NextInput ==
    /\ ppc # "input"
    /\ ppc' = "input"
    /\ text' = <<>>
    /\ ntok' = 0
    /\ file' = <<>>
    /\ parsed' = <<>>
    /\ UNCHANGED renderVars
    /\ UNCHANGED otherVars

\* ---------------------------------------------------------- read_csv_file
\* An item of BufReader::lines(): Ok(line) or Err (a line that is not UTF-8).
OkLine(t) == [ok |-> TRUE, text |-> t]
ErrLine == [ok |-> FALSE, text |-> <<>>]

\* line.split(','): the fields in order; a line without a comma is one field.
RECURSIVE SplitFrom(_, _, _)
SplitFrom(line, i, field) ==
    IF i > Len(line) THEN <<field>>
    ELSE IF line[i] = "," THEN <<field>> \o SplitFrom(line, i + 1, <<>>)
    ELSE SplitFrom(line, i + 1, Append(field, line[i]))

Split(line) == SplitFrom(line, 1, <<>>)

\* HashMap::new()
HashMapNew == [k \in {} |-> 0]

\* counts.entry(key).or_insert(0), read
EntryOrInsert(counts, key) == IF key \in DOMAIN counts THEN counts[key] ELSE 0

\* *c += 1
Increment(counts, key) ==
    [k \in DOMAIN counts \cup {key} |->
        IF k = key THEN EntryOrInsert(counts, key) + 1 ELSE counts[k]]

\* The suffix numbered one too high.
Suffixed_OffByOne(name, c) ==
    IF c > 0 THEN name \o <<"_">> \o Display(c + 1) ELSE name

\* if *c > 0 { format!("{name}_{c}") } else { name }
Suffixed(name, c) ==
    IF c > 0 THEN name \o <<"_">> \o Display(c) ELSE name

\* if parts.len() >= 3
Accepts(parts) == Len(parts) >= 3

\* The flag read without trimming the field.
ActiveField_NoTrim(f) == eq_ignore_ascii_case(f, Yes)

\* parts[0].trim().eq_ignore_ascii_case("yes")
ActiveField(f) == eq_ignore_ascii_case(trim(f), Yes)

\* The body of the for loop for one line, on the pair <<eqs, counts>>.
CsvRow(st, line) ==
    LET parts == Split(line)
    IN IF Accepts(parts)
       THEN LET act == ActiveField(parts[1])
                body == trim(parts[2])
                name == trim(parts[3])
                c == EntryOrInsert(st[2], name)
            IN <<Append(st[1], NewEquation(act, Suffixed(name, c), body)),
                 Increment(st[2], name)>>
       ELSE st

\* for line in rdr.lines().skip(1).flatten(): the items from `i` on.
RECURSIVE CsvLoop(_, _, _)
CsvLoop(items, i, st) ==
    IF i > Len(items) THEN st
    ELSE CsvLoop(items, i + 1,
                 IF items[i].ok THEN CsvRow(st, items[i].text) ELSE st)

\* .skip(1): the number of leading items the loop never sees.
SkippedLines == 1

\* The header is kept as the first data row.
FirstDataLine_NoSkip == SkippedLines

\* The first item the loop sees.
FirstDataLine == SkippedLines + 1

read_csv_file(items) == CsvLoop(items, FirstDataLine, <<<<>>, HashMapNew>>)[1]

\* The lines a CSV file is written from.
CsvLines == {
    OkLine(<<"y","e","s",",","x",",","f","o","o">>),
    OkLine(<<"n","o",","," ","y"," ",",","f","o","o">>),
    OkLine(<<" ","Y","E","S"," ",",","z",",","f","o","o","_","1">>),
    OkLine(<<"n","o",",","w",",">>),
    OkLine(<<",","v",","," ","a"," ","b"," ">>),
    OkLine(<<"Y","e","s",",","u",",","a","_","b">>),
    OkLine(<<"y","e","s",",","t">>),
    OkLine(<<>>),
    OkLine(<<"y","e","s","!",",","s",",","f","o","o",",","r">>),
    ErrLine }

WriteLine ==
    /\ ppc = "input"
    /\ Len(file) < MaxLines
    /\ text = <<>>
    /\ \E l \in CsvLines : file' = Append(file, l)
    /\ UNCHANGED <<text, ntok, ppc, parsed>>
    /\ UNCHANGED renderVars
    /\ UNCHANGED otherVars

CallReadCsv ==
    /\ ppc = "input"
    /\ parsed' = read_csv_file(file)
    /\ ppc' = "read_csv_file"
    /\ UNCHANGED <<text, ntok, file>>
    /\ UNCHANGED renderVars
    /\ UNCHANGED otherVars

NextCsv == WriteLine \/ CallReadCsv \/ NextInput
SpecCsv == Init /\ [][NextCsv]_vars

\* --------------------------------------------------------- parse_markdown
\* The regex of parse_markdown, matched as the regex crate matches it:
\*   (?s)(%%(yes|no)?%%)?[\n\r]*\$\$[\n\r]*(.*?)\$\$[\n\r]*(%%(.*?)%%)?
\* leftmost start first, and at one start the alternatives in the order of
\* the pattern (greedy before skipping, lazy from the shortest).
Percents == <<"%", "%">>
Dollars == <<"$", "$">>
NewlineClass == {"\n", "\r"}

StartsWith(t, i, pat) ==
    /\ i >= 1
    /\ i + Len(pat) - 1 <= Len(t)
    /\ SubSeq(t, i, i + Len(pat) - 1) = pat

\* [\n\r]* from position i, greedy: the first position it does not take.
RECURSIVE SkipNewlines(_, _)
SkipNewlines(t, i) ==
    IF i <= Len(t) /\ t[i] \in NewlineClass THEN SkipNewlines(t, i + 1) ELSE i

\* The first position >= i where pat starts, 0 when there is none.
RECURSIVE Find(_, _, _)
Find(t, i, pat) ==
    IF i + Len(pat) - 1 > Len(t) THEN 0
    ELSE IF StartsWith(t, i, pat) THEN i
    ELSE Find(t, i + 1, pat)

\* The ways group 1 can match at a start, in the regex's order of preference:
\* %%yes%%, %%no%%, %%%% (group 2 unset), and group 1 skipped.
Group1Alternatives ==
    << [pat |-> Percents \o Yes \o Percents, g2 |-> "yes"],
       [pat |-> Percents \o No \o Percents, g2 |-> "no"],
       [pat |-> Percents \o Percents, g2 |-> "unset"],
       [pat |-> <<>>, g2 |-> "unset"] >>

NoMatch == [found |-> FALSE]

\* The trailing name directive taken by the next block although %%..%% follows.
Trailer_Skipped(t, close) ==
    [g5set |-> FALSE, g5 |-> <<>>, end |-> SkipNewlines(t, close + 2)]

\* [\n\r]*(%%(.*?)%%)? after the closing $$ at `close`.
Trailer(t, close) ==
    LET e == SkipNewlines(t, close + 2)
        f == IF StartsWith(t, e, Percents) THEN Find(t, e + 2, Percents) ELSE 0
    IN IF f # 0
       THEN [g5set |-> TRUE, g5 |-> SubSeq(t, e + 2, f - 1), end |-> f + 2]
       ELSE [g5set |-> FALSE, g5 |-> <<>>, end |-> e]

\* The rest of the pattern after group 1 ended before position p.
RestAt(t, p, g2) ==
    LET o == SkipNewlines(t, p)
    IN IF ~StartsWith(t, o, Dollars) THEN NoMatch
       ELSE LET b == SkipNewlines(t, o + 2)
                c == Find(t, b, Dollars)
            IN IF c = 0 THEN NoMatch
               ELSE LET tr == Trailer(t, c)
                    IN [found |-> TRUE, g2 |-> g2, open |-> o,
                        g3 |-> SubSeq(t, b, c - 1),
                        g5set |-> tr.g5set, g5 |-> tr.g5, end |-> tr.end]

RECURSIVE TryAlternatives(_, _, _)
TryAlternatives(t, s, k) ==
    IF k > Len(Group1Alternatives) THEN NoMatch
    ELSE LET alt == Group1Alternatives[k]
             m == IF StartsWith(t, s, alt.pat) \/ alt.pat = <<>>
                  THEN RestAt(t, s + Len(alt.pat), alt.g2) ELSE NoMatch
         IN IF m.found THEN m ELSE TryAlternatives(t, s, k + 1)

MatchAt(t, s) == TryAlternatives(t, s, 1)

\* The leftmost match starting at or after `at`.
RECURSIVE NextMatch(_, _)
NextMatch(t, at) ==
    IF at > Len(t) THEN NoMatch
    ELSE LET m == MatchAt(t, at)
         IN IF m.found THEN m ELSE NextMatch(t, at + 1)

\* A block is active only with an explicit %%yes%%.
CapActive_NeedsYes(m) == m.g2 = "yes"

\* cap.get(2).is_none_or(|m| m.as_str() == "yes")
CapActive(m) == m.g2 = "unset" \/ m.g2 = "yes"

\* cap.get(5).map_or("default_equation", |m| m.as_str())
CapRaw(m) == IF m.g5set THEN m.g5 ELSE DefaultName

\* The body of the for loop for one capture, on the pair <<eqs, counts>>.
MdCapture(st, m) ==
    LET body == trim(m.g3)
        raw == CapRaw(m)
        c == EntryOrInsert(st[2], raw)
    IN <<Append(st[1], NewEquation(CapActive(m), Suffixed(raw, c), body)),
         Increment(st[2], raw)>>

\* for cap in re.captures_iter(content): the captures from position `at` on.
RECURSIVE MdLoop(_, _, _)
MdLoop(t, at, st) ==
    LET m == NextMatch(t, at)
    IN IF m.found THEN MdLoop(t, m.end, MdCapture(st, m)) ELSE st

parse_markdown(content) == MdLoop(content, 1, <<<<>>, HashMapNew>>)[1]

\* The pieces a Markdown document is written from.
MdTokens == {
    Percents \o No \o Percents,
    Percents \o Yes \o Percents,
    Percents,
    Dollars,
    <<"a">>,
    <<"\n">>,
    Dollars \o <<"a", "\n">> \o Dollars }

WriteToken ==
    /\ ppc = "input"
    /\ ntok < MaxTokens
    /\ file = <<>>
    /\ \E tok \in MdTokens : text' = text \o tok
    /\ ntok' = ntok + 1
    /\ UNCHANGED <<file, ppc, parsed>>
    /\ UNCHANGED renderVars
    /\ UNCHANGED otherVars

CallParseMarkdown ==
    /\ ppc = "input"
    /\ parsed' = parse_markdown(text)
    /\ ppc' = "parse_markdown"
    /\ UNCHANGED <<text, ntok, file>>
    /\ UNCHANGED renderVars
    /\ UNCHANGED otherVars

NextMd == WriteToken \/ CallParseMarkdown \/ NextInput
SpecMd == Init /\ [][NextMd]_vars

\* Both parsers, each on its own input.
NextParse == WriteLine \/ CallReadCsv \/ WriteToken \/ CallParseMarkdown \/ NextInput
SpecParse == Init /\ [][NextParse]_vars

\* ------------------------------------------------------- Equation::render
\* Names of the records of a batch (names are sanitized when a record is built).
RenderNames == {<<"a">>, <<"b">>}
RenderRecords == [active : BOOLEAN, name : RenderNames]

\* The batches of at most MaxEqs records.
Batches == UNION { [1..n -> RenderRecords] : n \in 0..MaxEqs }

\* The output directory as the program may find it: missing, empty, or holding
\* the files an earlier run left for the name "a".
EarlierRun == { <<<<"a">>, "tex">>, <<<<"a">>, "pdf">>, <<<<"a">>, "svg">> }

InitRender ==
    /\ text = <<>>
    /\ ntok = 0
    /\ file = <<>>
    /\ ppc = "input"
    /\ parsed = <<>>
    /\ eqs = <<>>
    /\ del = FALSE
    /\ caller = "none"
    /\ active = <<>>
    /\ idx = 0
    /\ rpc = "none"
    /\ \E d \in {<<FALSE, {}>>, <<TRUE, {}>>, <<TRUE, EarlierRun>>} :
          dirExists = d[1] /\ fs = d[2]
    /\ log = <<>>
    /\ ret = "none"
    /\ InitCliVars
    /\ InitGuiVars

\* The record render runs on, as an index into eqs, and the record itself.
CurRef == IF caller = "render_equations" THEN active[idx] ELSE 1
Cur == eqs[CurRef]

Event(ev, res) == [ev |-> ev, i |-> CurRef, res |-> res]

\* The guard left out: render goes on for every record.
Skips_Never(eq) == FALSE

\* if !self.active { return Ok(()); }
Skips(eq) == ~eq.active

RenderEntry ==
    /\ rpc = "entry"
    /\ rpc' = IF Skips(Cur) THEN "Ok" ELSE "create_dir_all"
    /\ UNCHANGED <<eqs, del, caller, active, idx, dirExists, fs, log, ret>>
    /\ UNCHANGED parseVars
    /\ UNCHANGED otherVars

\* fs::create_dir_all(output_dir)?  An existing directory always succeeds.
CreateDirAll ==
    /\ rpc = "create_dir_all"
    /\ \/ /\ dirExists' = TRUE
          /\ rpc' = "write"
          /\ log' = Append(log, Event("create_dir_all", "ok"))
       \/ /\ ~dirExists
          /\ dirExists' = FALSE
          /\ rpc' = "Err"
          /\ log' = Append(log, Event("create_dir_all", "failed"))
    /\ UNCHANGED <<eqs, del, caller, active, idx, fs, ret>>
    /\ UNCHANGED parseVars
    /\ UNCHANGED otherVars

\* fs::write(&tex_path, tex)?  A failed write may leave the file behind.
WriteTex ==
    /\ rpc = "write"
    /\ \/ /\ fs' = fs \cup {<<Cur.name, "tex">>}
          /\ rpc' = "tectonic"
          /\ log' = Append(log, Event("write", "ok"))
       \/ /\ fs' \in {fs, fs \cup {<<Cur.name, "tex">>}}
          /\ rpc' = "Err"
          /\ log' = Append(log, Event("write", "failed"))
    /\ UNCHANGED <<eqs, del, caller, active, idx, dirExists, ret>>
    /\ UNCHANGED parseVars
    /\ UNCHANGED otherVars

\* The converter run although the compiler failed.
AfterCompilerFailure_Converts == "pdftocairo"

\* if status.success() { ... } Ok(()): a failed compile falls through to Ok.
AfterCompilerFailure == "Ok"

\* Command::new("tectonic")...status()? and the test of status.success()
RunTectonic ==
    /\ rpc = "tectonic"
    /\ \/ /\ rpc' = "Err"
          /\ fs' = fs
          /\ log' = Append(log, Event("tectonic", "spawn_failed"))
       \/ /\ rpc' = AfterCompilerFailure
          /\ fs' = fs
          /\ log' = Append(log, Event("tectonic", "exit_nonzero"))
       \/ /\ rpc' = "pdftocairo"
          /\ fs' = fs \cup {<<Cur.name, "pdf">>}
          /\ log' = Append(log, Event("tectonic", "exit_zero"))
    /\ UNCHANGED <<eqs, del, caller, active, idx, dirExists, ret>>
    /\ UNCHANGED parseVars
    /\ UNCHANGED otherVars

\* convert_pdf_to_svg(output_dir)? and the test of delete_intermediates
RunPdftocairo ==
    /\ rpc = "pdftocairo"
    /\ \/ /\ rpc' = "Err"
          /\ fs' = fs
          /\ log' = Append(log, Event("pdftocairo", "spawn_failed"))
       \/ /\ rpc' = "Err"
          /\ fs' = fs
          /\ log' = Append(log, Event("pdftocairo", "exit_nonzero"))
       \/ /\ rpc' = IF del THEN "cleanup" ELSE "Ok"
          /\ fs' = fs \cup {<<Cur.name, "svg">>}
          /\ log' = Append(log, Event("pdftocairo", "exit_zero"))
    /\ UNCHANGED <<eqs, del, caller, active, idx, dirExists, ret>>
    /\ UNCHANGED parseVars
    /\ UNCHANGED otherVars

\* cleanup_intermediate_files: each remove_file may fail, and the error is dropped.
Cleanup ==
    /\ rpc = "cleanup"
    /\ \E removed \in SUBSET {<<Cur.name, "tex">>, <<Cur.name, "pdf">>} :
          fs' = fs \ removed
    /\ rpc' = "Ok"
    /\ log' = Append(log, Event("remove_file", "ok"))
    /\ UNCHANGED <<eqs, del, caller, active, idx, dirExists, ret>>
    /\ UNCHANGED parseVars
    /\ UNCHANGED otherVars

RenderStep ==
    RenderEntry \/ CreateDirAll \/ WriteTex \/ RunTectonic \/ RunPdftocairo \/ Cleanup

\* ------------------------------------------------------- render_equations
\* The indices of a batch's records from `i` on that pass the filter.
RECURSIVE FilterFrom(_, _, _)
FilterFrom(es, i, keep) ==
    IF i > Len(es) THEN <<>>
    ELSE (IF keep \/ es[i].active THEN <<i>> ELSE <<>>) \o FilterFrom(es, i + 1, keep)

\* The filter left out: every record of the slice is rendered.
ActiveRefs_NoFilter(es) == FilterFrom(es, 1, TRUE)

\* equations.iter().filter(|e| e.active).collect()
ActiveRefs(es) == FilterFrom(es, 1, FALSE)

CallRenderEquations ==
    /\ caller = "none"
    /\ ret = "none"
    /\ \E es \in Batches : eqs' = es /\ active' = ActiveRefs(es)
    /\ del' \in BOOLEAN
    /\ caller' = "render_equations"
    /\ idx' = 1
    /\ UNCHANGED <<rpc, dirExists, fs, log, ret>>
    /\ UNCHANGED parseVars
    /\ UNCHANGED otherVars

\* for eq in active { eq.render(..) ..: the call of the next render, or the
\* end of the loop with bar.finish() and Ok(()).
LoopNext ==
    /\ caller = "render_equations"
    /\ ret = "none"
    /\ rpc = "none"
    /\ IF idx <= Len(active)
       THEN /\ rpc' = "entry"
            /\ log' = Append(log, Event("render", "call"))
            /\ ret' = ret
       ELSE /\ ret' = "Ok"
            /\ UNCHANGED <<rpc, log>>
    /\ UNCHANGED <<eqs, del, caller, active, idx, dirExists, fs>>
    /\ UNCHANGED parseVars
    /\ UNCHANGED otherVars

\* eq.render(..)?; bar.inc(1): an error leaves the function, Ok goes on.
LoopAfterRender ==
    /\ caller = "render_equations"
    /\ rpc \in {"Ok", "Err"}
    /\ log' = Append(log, Event("return", rpc))
    /\ rpc' = "none"
    /\ IF rpc = "Ok"
       THEN idx' = idx + 1 /\ ret' = ret
       ELSE idx' = idx /\ ret' = "Err"
    /\ UNCHANGED <<eqs, del, caller, active, dirExists, fs>>
    /\ UNCHANGED parseVars
    /\ UNCHANGED otherVars

\* A caller that renders one record itself, active or not.
CallRender ==
    /\ caller = "none"
    /\ ret = "none"
    /\ \E eq \in RenderRecords : eqs' = <<eq>>
    /\ del' \in BOOLEAN
    /\ caller' = "direct"
    /\ active' = <<>>
    /\ idx' = 1
    /\ rpc' = "entry"
    /\ log' = <<[ev |-> "render", i |-> 1, res |-> "call"]>>
    /\ UNCHANGED <<dirExists, fs, ret>>
    /\ UNCHANGED parseVars
    /\ UNCHANGED otherVars

RenderReturns ==
    /\ caller = "direct"
    /\ rpc \in {"Ok", "Err"}
    /\ ret' = rpc
    /\ rpc' = "none"
    /\ log' = Append(log, Event("return", rpc))
    /\ UNCHANGED <<eqs, del, caller, active, idx, dirExists, fs>>
    /\ UNCHANGED parseVars
    /\ UNCHANGED otherVars

NextRender ==
    \/ CallRenderEquations \/ LoopNext \/ LoopAfterRender
    \/ CallRender \/ RenderReturns
    \/ RenderStep
SpecRender == InitRender /\ [][NextRender]_vars

\* ------------------------------------------------------- detect_file_type
\* s.split(sep): the pieces of s between the separators.
RECURSIVE SplitOnFrom(_, _, _, _)
SplitOnFrom(s, sep, i, piece) ==
    IF i > Len(s) THEN <<piece>>
    ELSE IF s[i] = sep THEN <<piece>> \o SplitOnFrom(s, sep, i + 1, <<>>)
    ELSE SplitOnFrom(s, sep, i + 1, Append(piece, s[i]))

SplitOn(s, sep) == SplitOnFrom(s, sep, 1, <<>>)

Some(v) == [some |-> TRUE, val |-> v]
None == [some |-> FALSE, val |-> <<>>]

Dot == <<".">>
DotDot == <<".", ".">>

\* Path::components(): empty pieces and "." are dropped, except a "." that
\* leads a path without a root.
PathComponents(p) ==
    LET parts == SplitOn(p, "/")
        kept == { i \in DOMAIN parts :
                    /\ parts[i] # <<>>
                    /\ parts[i] = Dot => i = 1 }
    IN [k \in 1..Cardinality(kept) |->
          parts[CHOOSE i \in kept : Cardinality({j \in kept : j < i}) = k - 1]]

\* Path::file_name(): the last component when it is a normal one.
FileName(p) ==
    LET comps == PathComponents(p)
    IN IF comps = <<>> THEN None
       ELSE LET last == comps[Len(comps)]
            IN IF last = Dot \/ last = DotDot THEN None ELSE Some(last)

\* The last position of a "." in a name, 0 when it has none.
LastDot(name) ==
    LET D == { i \in DOMAIN name : name[i] = "." }
    IN IF D = {} THEN 0 ELSE CHOOSE i \in D : \A j \in D : j <= i

\* Path::extension(): the part of the file name after its last ".", unless the
\* name has no "." or only the one it begins with.
Extension(p) ==
    LET fname == FileName(p)
    IN IF ~fname.some THEN None
       ELSE LET d == LastDot(fname.val)
            IN IF d <= 1 THEN None
               ELSE Some(SubSeq(fname.val, d + 1, Len(fname.val)))

Csv == <<"c","s","v">>
Md == <<"m","d">>
Markdown == <<"m","a","r","k","d","o","w","n">>

\* The extension compared without regard to case.
detect_file_type_IgnoreCase(p) ==
    LET e == Extension(p)
    IN IF e.some /\ eq_ignore_ascii_case(e.val, Csv) THEN "Csv"
       ELSE IF e.some /\ (eq_ignore_ascii_case(e.val, Md)
                            \/ eq_ignore_ascii_case(e.val, Markdown)) THEN "Markdown"
       ELSE "Unknown"

\* match path.extension().and_then(|e| e.to_str())
detect_file_type(p) ==
    LET e == Extension(p)
    IN IF e = Some(Csv) THEN "Csv"
       ELSE IF e = Some(Md) \/ e = Some(Markdown) THEN "Markdown"
       ELSE "Unknown"

\* ---------------------------------------------------------------- run_cli
\* BufRead::lines(): the text cut at "\n", without a last empty piece and
\* without the "\r" before a "\n".
Lines(t) ==
    LET pieces == SplitOn(t, "\n")
        n == IF pieces[Len(pieces)] = <<>> THEN Len(pieces) - 1 ELSE Len(pieces)
    IN [i \in 1..n |->
          OkLine(IF pieces[i] # <<>> /\ pieces[i][Len(pieces[i])] = "\r"
                 THEN SubSeq(pieces[i], 1, Len(pieces[i]) - 1) ELSE pieces[i])]

\* The pieces an input path is written from.
PathTokens == { <<"a">>, Dot, <<"/">>, Csv, Md, Markdown, <<"C","S","V">> }

\* What the input file may hold: nothing, or a header and two rows, the
\* first of which also holds a math block.
CliContents == {
    <<>>,
    <<"h","\n", "y","e","s",",","$","$","a","$","$",",","f","o","o","\n",
      "n","o",",","w",",","b","\n">> }

PathToken ==
    /\ cpc = "input"
    /\ caller = "none"
    /\ ntok < MaxPath
    /\ \E tok \in PathTokens : path' = path \o tok
    /\ ntok' = ntok + 1
    /\ UNCHANGED <<cpc, cret, did>>
    /\ UNCHANGED <<text, file, ppc, parsed>>
    /\ UNCHANGED renderVars
    /\ UNCHANGED guiVars

CallRunCli ==
    /\ cpc = "input"
    /\ caller = "none"
    /\ del' \in BOOLEAN
    /\ cpc' = "create_dir_all"
    /\ UNCHANGED <<path, cret, did>>
    /\ UNCHANGED parseVars
    /\ UNCHANGED <<eqs, caller, active, idx, rpc, dirExists, fs, log, ret>>
    /\ UNCHANGED guiVars

\* return Err(..) / the `?` of an I/O call that failed
CliFails(how) ==
    /\ cret' = how
    /\ cpc' = "done"
    /\ did' = IF how = "IoErr" THEN did \cup {"io_error"} ELSE did

\* fs::create_dir_all(output_dir)?
CliCreateDir ==
    /\ cpc = "create_dir_all"
    /\ \/ /\ dirExists' = TRUE
          /\ cpc' = "read_file"
          /\ UNCHANGED <<cret, did>>
       \/ /\ ~dirExists
          /\ dirExists' = FALSE
          /\ CliFails("IoErr")
    /\ UNCHANGED path
    /\ UNCHANGED parseVars
    /\ UNCHANGED <<eqs, del, caller, active, idx, rpc, fs, log, ret>>
    /\ UNCHANGED guiVars

\* let content = read_file(&input_file)?: the content is what the file holds.
CliReadFile ==
    /\ cpc = "read_file"
    /\ \/ /\ cpc' = "match"
          /\ text' \in CliContents
          /\ UNCHANGED <<cret, did>>
       \/ CliFails("IoErr") /\ text' = text
    /\ UNCHANGED path
    /\ UNCHANGED <<ntok, file, ppc, parsed>>
    /\ UNCHANGED renderVars
    /\ UNCHANGED guiVars

\* After the parse: if equations.is_empty() { return Ok(()) }, else the table
\* and the question.
CliParsed(es, parser) ==
    /\ parsed' = es
    /\ did' = did \cup {parser}
    /\ IF es = <<>>
       THEN cret' = "Ok" /\ cpc' = "done"
       ELSE cret' = cret /\ cpc' = "confirm"

\* let equations = match ft { .. }
CliMatch ==
    /\ cpc = "match"
    /\ LET ft == detect_file_type(path)
       IN CASE ft = "Csv" ->
                 \/ CliParsed(read_csv_file(Lines(text)), "read_csv_file")
                 \/ CliFails("IoErr") /\ parsed' = parsed
            [] ft = "Markdown" -> CliParsed(parse_markdown(text), "parse_markdown")
            [] OTHER -> CliFails("Unsupported") /\ parsed' = parsed
    /\ UNCHANGED <<path, text, ntok, file, ppc>>
    /\ UNCHANGED renderVars
    /\ UNCHANGED guiVars

\* if !ask_confirmation(..) { return Ok(()) }; render_equations(..)
CliConfirm ==
    /\ cpc = "confirm"
    /\ \/ /\ cret' = "Ok"
          /\ cpc' = "done"
          /\ UNCHANGED <<did, eqs, caller, active, idx>>
       \/ /\ cpc' = "render_equations"
          /\ did' = did \cup {"render_equations"}
          /\ eqs' = parsed
          /\ caller' = "render_equations"
          /\ active' = ActiveRefs(parsed)
          /\ idx' = 1
          /\ cret' = cret
    /\ UNCHANGED path
    /\ UNCHANGED parseVars
    /\ UNCHANGED <<del, rpc, dirExists, fs, log, ret>>
    /\ UNCHANGED guiVars

\* render_equations(..)?; println!("Rendered to ..."); Ok(())
CliAfterRender ==
    /\ cpc = "render_equations"
    /\ ret # "none"
    /\ cret' = IF ret = "Ok" THEN "Ok" ELSE "IoErr"
    /\ cpc' = "done"
    /\ UNCHANGED <<path, did>>
    /\ UNCHANGED parseVars
    /\ UNCHANGED renderVars
    /\ UNCHANGED guiVars

NextCli ==
    \/ PathToken \/ CallRunCli \/ CliCreateDir \/ CliReadFile \/ CliMatch
    \/ CliConfirm \/ CliAfterRender
    \/ LoopNext \/ LoopAfterRender \/ RenderStep
SpecCli == InitRender /\ [][NextCli]_vars

\* ------------------------------------------- EquationProcessorApp::update
\* One frame is three sections run in order: the completion poll, the two
\* dialogs, and the panel with its buttons.  A render thread runs between
\* the sections; what it shares with the frame is its channel only.
RenderingComplete == "Rendering complete!"
UnsupportedSelected == "Unsupported file type selected."
NoEquationsLoaded == "No equations loaded."
SelectOutputDir == "Select an output directory."

\* The files the open dialog may return.
GuiPaths == { <<"a">> \o Dot \o Csv, <<"a">> \o Dot \o Md, <<"a">> \o Dot \o <<"C","S","V">> }

\* mpsc::channel(): nothing queued, nothing received.
NewChannel == [queued |-> 0, received |-> 0]

\* thread::spawn(move || ..): the thread owns the list and stands before its
\* first iteration.
NewWorker(es) == [eqs |-> es, i |-> 1, tried |-> <<>>, sent |-> 0, pc |-> "for"]

Running(w) == workers[w].pc # "done"

\* 1. if let Some(rx) = &self.progress_rx { if rx.try_recv().is_ok() { .. } }
FramePoll ==
    /\ fpc = "poll"
    /\ fpc' = "dialogs"
    /\ IF progress_rx # 0 /\ channels[progress_rx].queued > 0
       THEN /\ channels' = [channels EXCEPT
                               ![progress_rx].queued = @ - 1,
                               ![progress_rx].received = @ + 1]
            /\ processing' = FALSE
            /\ progress_rx' = 0
            /\ success_message' = RenderingComplete
       ELSE UNCHANGED <<channels, processing, progress_rx, success_message>>
    /\ UNCHANGED <<equations, error_message, output_dir, workers>>
    /\ UNCHANGED <<parseVars, renderVars, cliVars>>

\* if let Some(path) = self.open_file_dialog.take_picked() { match detect_file_type(&path) .. }
FilePicked(p, content) ==
    LET ft == detect_file_type(p)
    IN CASE ft = "Csv" ->
              /\ equations' \in {read_csv_file(Lines(content)), <<>>}
              /\ error_message' = NoMessage
              /\ UNCHANGED success_message
         [] ft = "Markdown" ->
              /\ equations' \in {parse_markdown(content), parse_markdown(<<>>)}
              /\ error_message' = NoMessage
              /\ UNCHANGED success_message
         [] OTHER ->
              /\ equations' = <<>>
              /\ error_message' = UnsupportedSelected
              /\ success_message' = NoMessage

\* Neither dialog returned a path in this frame.
DialogsIdle ==
    /\ fpc = "dialogs"
    /\ fpc' = "ui"
    /\ UNCHANGED <<equations, error_message, success_message, output_dir>>
    /\ UNCHANGED <<processing, progress_rx, workers, channels>>
    /\ UNCHANGED <<parseVars, renderVars, cliVars>>

\* 2. The dialogs: a file was picked, a directory was picked, or neither.
FrameDialogs ==
    \/ /\ fpc = "dialogs"
       /\ fpc' = "ui"
       /\ \/ /\ \E p \in GuiPaths, content \in CliContents : FilePicked(p, content)
             /\ UNCHANGED output_dir
          \/ /\ output_dir' = TRUE
             /\ UNCHANGED <<equations, error_message, success_message>>
       /\ UNCHANGED <<processing, progress_rx, workers, channels>>
       /\ UNCHANGED <<parseVars, renderVars, cliVars>>
    \/ DialogsIdle

\* The button answers clicks at any time.
ProcessEnabled_Always == TRUE

\* ui.add_enabled(!self.processing, egui::Button::new("Process"))
ProcessEnabled == ~processing

\* if btn.clicked() { .. }
ProcessClicked ==
    /\ ProcessEnabled
    /\ IF equations = <<>>
       THEN /\ error_message' = NoEquationsLoaded
            /\ UNCHANGED <<equations, progress_rx, processing, workers, channels>>
       ELSE IF ~output_dir
       THEN /\ error_message' = SelectOutputDir
            /\ UNCHANGED <<equations, progress_rx, processing, workers, channels>>
       ELSE /\ Len(workers) < MaxWorkers
            /\ error_message' = NoMessage
            /\ equations' = <<>>
            /\ channels' = Append(channels, NewChannel)
            /\ progress_rx' = Len(channels) + 1
            /\ processing' = TRUE
            /\ workers' = Append(workers, NewWorker(equations))
    /\ success_message' = NoMessage

\* "Select All", "Select None", or the checkbox of one row.
TableClicked ==
    /\ equations # <<>>
    /\ \/ equations' = [k \in DOMAIN equations |-> [equations[k] EXCEPT !.active = TRUE]]
       \/ equations' = [k \in DOMAIN equations |-> [equations[k] EXCEPT !.active = FALSE]]
       \/ \E k \in DOMAIN equations :
             equations' = [equations EXCEPT ![k].active = ~@]
    /\ UNCHANGED <<error_message, success_message, progress_rx, processing,
                   workers, channels>>

\* 3. The panel: at most one widget is clicked in a frame.
FrameUi ==
    /\ fpc = "ui"
    /\ fpc' = "poll"
    /\ \/ ProcessClicked
       \/ TableClicked
       \/ UNCHANGED <<equations, error_message, success_message, progress_rx,
                      processing, workers, channels>>
    /\ UNCHANGED output_dir
    /\ UNCHANGED <<parseVars, renderVars, cliVars>>

\* What eq.render(..) may return: Ok at once for an inactive record.
RenderResults(eq) == IF Skips(eq) THEN {"Ok"} ELSE {"Ok", "Err"}

\* The loop stops at the first render that failed.
AfterRender_StopsOnErr(w, res) ==
    IF res = "Err" \/ workers[w].i = Len(workers[w].eqs) THEN "send" ELSE "for"

\* for eq in eqs { let _ = eq.render(..); }: the result is dropped.
AfterRender(w, res) ==
    IF workers[w].i = Len(workers[w].eqs) THEN "send" ELSE "for"

WorkerRender(w) ==
    /\ workers[w].pc = "for"
    /\ \E res \in RenderResults(workers[w].eqs[workers[w].i]) :
          workers' = [workers EXCEPT
                         ![w].tried = Append(@, [i |-> workers[w].i, res |-> res]),
                         ![w].i = @ + 1,
                         ![w].pc = AfterRender(w, res)]
    /\ UNCHANGED <<equations, processing, progress_rx, error_message, success_message,
                   output_dir, fpc, channels>>
    /\ UNCHANGED <<parseVars, renderVars, cliVars>>

\* let _ = tx.send(()): the message is queued while the receiver lives, and
\* the thread ends.
WorkerSend(w) ==
    /\ workers[w].pc = "send"
    /\ workers' = [workers EXCEPT ![w].sent = @ + 1, ![w].pc = "done"]
    /\ channels' = IF progress_rx = w
                   THEN [channels EXCEPT ![w].queued = @ + 1]
                   ELSE channels
    /\ UNCHANGED <<equations, processing, progress_rx, error_message, success_message,
                   output_dir, fpc>>
    /\ UNCHANGED <<parseVars, renderVars, cliVars>>

Worker == \E w \in DOMAIN workers : WorkerRender(w) \/ WorkerSend(w)

NextGui ==
    \/ FramePoll \/ FrameDialogs \/ FrameUi
    \/ \E w \in DOMAIN workers : WorkerRender(w)
    \/ \E w \in DOMAIN workers : WorkerSend(w)
SpecGui == Init /\ [][NextGui]_vars

\* Frames keep coming (the spinner asks for a repaint in every frame it is
\* drawn in), no section of a frame lasts forever, and a thread that can take
\* a step takes it.
SpecGuiFair ==
    SpecGui /\ WF_vars(FramePoll) /\ WF_vars(DialogsIdle) /\ WF_vars(FrameUi)
            /\ WF_vars(Worker)

\* ------------------------------------------------ the claims on the parsers
\* Positions of the commas of a line, and the k-th field (k from 0) read off
\* them: the text between the k-th comma and the next one.
CommaPositions(line) == { i \in DOMAIN line : line[i] = "," }

FieldOf(line, k) ==
    LET P == CommaPositions(line)
        from == IF k = 0 THEN 0
                ELSE CHOOSE p \in P : Cardinality({q \in P : q < p}) = k - 1
        to == IF Cardinality(P) > k
              THEN CHOOSE p \in P : Cardinality({q \in P : q < p}) = k
              ELSE Len(line) + 1
    IN SubSeq(line, from + 1, to - 1)

\* The data rows of the file that count: every line after the first that
\* decodes and holds at least two commas, as indices into file in file order.
QualifyingRows ==
    { i \in DOMAIN file :
        i >= 2 /\ file[i].ok /\ Cardinality(CommaPositions(file[i].text)) >= 2 }

RowOf(k) ==
    CHOOSE i \in QualifyingRows : Cardinality({j \in QualifyingRows : j < i}) = k - 1

CsvCandidate(k) == trim(FieldOf(file[RowOf(k)].text, 2))

\* How many earlier records of the same call had the same candidate name.
CsvEarlier(k) == Cardinality({ j \in 1..(k - 1) : CsvCandidate(j) = CsvCandidate(k) })

\* The name the k-th record is claimed to get from candidate c seen n times before.
ClaimedName(c, n) ==
    sanitize_filename(IF n = 0 THEN c ELSE c \o <<"_">> \o <<Digits[n + 1]>>)

\* The blocks of a document, scanned from the left: the next block opens at
\* the first $$ and closes at the first $$ after it; after the closing $$ come
\* newlines and, when %% follows and a later %% closes it, the name directive.
\* `resume` says where the scan for the next block starts.
RECURSIVE BlocksFrom(_, _, _)
BlocksFrom(t, from, resumeAfterName) ==
    LET o == Find(t, from, Dollars)
        c == IF o = 0 THEN 0 ELSE Find(t, o + 2, Dollars)
    IN IF c = 0 THEN <<>>
       ELSE LET e == SkipNewlines(t, c + 2)
                f == IF StartsWith(t, e, Percents) THEN Find(t, e + 2, Percents) ELSE 0
                blk == [from |-> from, open |-> o, close |-> c,
                        named |-> f # 0,
                        name |-> IF f # 0 THEN SubSeq(t, e + 2, f - 1) ELSE <<>>]
                resume == IF resumeAfterName /\ f # 0 THEN f + 2
                          ELSE IF resumeAfterName THEN e ELSE c + 2
            IN <<blk>> \o BlocksFrom(t, resume, resumeAfterName)

\* One block per $$..$$ pair, whatever the name directives hold.
PairedBlocks == BlocksFrom(text, 1, FALSE)
\* The scan resumes after the block's name directive.
ScannedBlocks == BlocksFrom(text, 1, TRUE)

MdCandidate(k) == IF ScannedBlocks[k].named THEN ScannedBlocks[k].name ELSE DefaultName

MdEarlier(k) == Cardinality({ j \in 1..(k - 1) : MdCandidate(j) = MdCandidate(k) })

\* The position before `o` that is not a newline (0 at the start of the text).
RECURSIVE BackOverNewlines(_, _)
BackOverNewlines(t, i) ==
    IF i >= 1 /\ t[i] \in NewlineClass THEN BackOverNewlines(t, i - 1) ELSE i

\* %%no%% stands directly before position o, newlines apart, and starts at or
\* after position `from`.
NoDirectiveBefore(t, o, from) ==
    LET p == BackOverNewlines(t, o - 1)
    IN /\ p - 5 >= from
       /\ SubSeq(t, p - 5, p) = Percents \o No \o Percents

\* C1: the records one parse call returns have pairwise distinct names.
C1_DistinctNames ==
    ppc \in {"read_csv_file", "parse_markdown"} =>
        \A i, j \in DOMAIN parsed : i # j => parsed[i].name # parsed[j].name

\* C2: in one parse call, CSV or Markdown, the first record with a candidate
\* name keeps it and the k-th record with the same candidate name gets the
\* suffix _{k-1}; the count is taken over the records of this call alone,
\* whatever was parsed before.
C2_SuffixByOccurrence ==
    /\ ppc = "read_csv_file" =>
          /\ Len(parsed) = Cardinality(QualifyingRows)
          /\ \A k \in DOMAIN parsed :
                parsed[k].name = ClaimedName(CsvCandidate(k), CsvEarlier(k))
    /\ ppc = "parse_markdown" =>
          /\ Len(parsed) = Len(ScannedBlocks)
          /\ \A k \in DOMAIN parsed :
                parsed[k].name = ClaimedName(MdCandidate(k), MdEarlier(k))

C2_Witness ==
    /\ ppc = "read_csv_file"
    /\ Len(parsed) = 3
    /\ parsed[1].name = <<"f","o","o">>
    /\ parsed[2].name = <<"f","o","o","_","1">>
    /\ parsed[3].name = <<"f","o","o","_","2">>

\* C4: read_csv_file drops the first line whatever it holds and returns one
\* record per later line with at least 3 fields, in file order (the k-th
\* record carries the body of the k-th such line); other lines give nothing.
C4_RecordPerRow ==
    ppc = "read_csv_file" =>
        /\ Len(parsed) = Cardinality(QualifyingRows)
        /\ \A k \in DOMAIN parsed :
              parsed[k].body = trim(FieldOf(file[RowOf(k)].text, 1))

C4_Witness ==
    /\ ppc = "read_csv_file"
    /\ Len(file) = 4
    /\ Cardinality(CommaPositions(file[1].text)) >= 2
    /\ \E i \in 2..4 : file[i].ok /\ Cardinality(CommaPositions(file[i].text)) < 2
    /\ Len(parsed) = 2
    /\ parsed[1].body # parsed[2].body

\* C5 as stated: the flag follows field 0, the body is field 1 trimmed, and
\* every row whose name field is empty is named "default_equation".
C5_EmptyNameAlwaysDefault ==
    ppc = "read_csv_file" =>
        \A k \in DOMAIN parsed :
            LET row == file[RowOf(k)].text
            IN /\ parsed[k].active = eq_ignore_ascii_case(trim(FieldOf(row, 0)), Yes)
               /\ parsed[k].body = trim(FieldOf(row, 1))
               /\ CsvCandidate(k) = <<>> => parsed[k].name = DefaultName

\* C5 amended: the flag is true exactly when field 0, trimmed, is "yes" in
\* any case; the body is field 1 trimmed; the name derives from field 2
\* trimmed, and of the rows whose name field is empty the first is named
\* "default_equation" and the k-th (k >= 2) is named _{k-1}.
C5_RowFields ==
    ppc = "read_csv_file" =>
        \A k \in DOMAIN parsed :
            LET row == file[RowOf(k)].text
                f0 == trim(FieldOf(row, 0))
            IN /\ parsed[k].active =
                    (Len(f0) = 3 /\ f0[1] \in {"y","Y"} /\ f0[2] \in {"e","E"}
                                 /\ f0[3] \in {"s","S"})
               /\ parsed[k].body = trim(FieldOf(row, 1))
               /\ parsed[k].name = ClaimedName(CsvCandidate(k), CsvEarlier(k))
               /\ CsvCandidate(k) = <<>> =>
                    parsed[k].name = (IF CsvEarlier(k) = 0 THEN DefaultName
                                      ELSE <<"_", Digits[CsvEarlier(k) + 1]>>)

C5_Witness ==
    /\ ppc = "read_csv_file"
    /\ Len(parsed) = 3
    /\ parsed[1].active /\ parsed[1].name = <<"f","o","o","_","1">>
    /\ ~parsed[2].active /\ parsed[2].name = DefaultName
    /\ parsed[3].name = <<"_", "1">>

\* C6 as stated: a record is inactive exactly when %%no%% stands directly
\* before its block.
C6_InactiveIffNoBefore ==
    (ppc = "parse_markdown" /\ Len(parsed) = Len(ScannedBlocks)) =>
        \A k \in DOMAIN parsed :
            parsed[k].active = ~NoDirectiveBefore(text, ScannedBlocks[k].open, 1)

\* C6 amended: a record is inactive exactly when %%no%% stands directly
\* before its block (newlines apart) and is not part of what the block
\* before it took: its closing $$, the newlines after it and its trailing
\* name directive.  A %%no%% right after a block is that block's name.
C6_InactiveIffOwnNoBefore ==
    ppc = "parse_markdown" =>
        /\ Len(parsed) = Len(ScannedBlocks)
        /\ \A k \in DOMAIN parsed :
              parsed[k].active =
                 ~NoDirectiveBefore(text, ScannedBlocks[k].open, ScannedBlocks[k].from)

C6_Witness ==
    /\ ppc = "parse_markdown"
    /\ Len(parsed) = 2
    /\ ~parsed[1].active
    /\ parsed[1].name = No
    /\ parsed[2].active
    /\ NoDirectiveBefore(text, ScannedBlocks[2].open, 1)

\* C7 as stated: one record per $$..$$ pair of the document, each opening $$
\* paired with the first $$ after it, with the trimmed text between as body
\* and the directive after the block, or "default_equation", as candidate name.
C7_RecordPerPair ==
    ppc = "parse_markdown" =>
        /\ Len(parsed) = Len(PairedBlocks)
        /\ \A k \in DOMAIN parsed :
              parsed[k].body =
                 trim(SubSeq(text, PairedBlocks[k].open + 2, PairedBlocks[k].close - 1))

\* C7 amended: one record per $$..$$ pair found scanning from the left, each
\* opening $$ paired with the first $$ after it, where the scan for the next
\* opening $$ resumes after the block's closing $$, the newlines after it and
\* its trailing %%<name>%% directive (which runs to the first later %% and
\* may hold $$ that open no block); the body is the trimmed text between the
\* markers, the candidate name the directive's text or "default_equation";
\* a text without a pair gives no record.
C7_RecordPerScannedPair ==
    ppc = "parse_markdown" =>
        /\ Len(parsed) = Len(ScannedBlocks)
        /\ \A k \in DOMAIN parsed :
              /\ parsed[k].body =
                   trim(SubSeq(text, ScannedBlocks[k].open + 2, ScannedBlocks[k].close - 1))
              /\ parsed[k].name = ClaimedName(MdCandidate(k), MdEarlier(k))
        /\ Find(text, 1, Dollars) = 0 => parsed = <<>>

C7_Witness ==
    /\ ppc = "parse_markdown"
    /\ Len(parsed) = 1
    /\ Len(PairedBlocks) = 2
    /\ parsed[1].body = <<"a">>
    /\ parsed[1].name = <<"_", "_", "a", "_", "_", "_">>

\* ------------------------------------------------- the claims on rendering
\* The positions of the log where a render is called, and the records called.
RenderCalls == SelectSeq(log, LAMBDA e : e.ev = "render")
CalledRefs == [k \in DOMAIN RenderCalls |-> RenderCalls[k].i]

\* The external tools started so far.
ToolRuns == SelectSeq(log, LAMBDA e : e.ev \in {"tectonic", "pdftocairo"})

\* The active records of the batch in list order, read off the list itself.
ActiveInOrder ==
    LET A == { i \in DOMAIN eqs : eqs[i].active }
    IN [k \in 1..Cardinality(A) |->
          CHOOSE i \in A : Cardinality({j \in A : j < i}) = k - 1]

IsPrefix(a, b) == Len(a) <= Len(b) /\ \A k \in DOMAIN a : a[k] = b[k]

\* C8: render on an inactive record returns Ok and changes nothing: the
\* step taken at its entry leaves the directory, the files and the history
\* of effects as they were (no directory made, no file written or removed,
\* no process started) and the call has returned Ok.
C8_InactiveRenderIsNoOp ==
    [][(rpc = "entry" /\ ~eqs[CurRef].active) =>
          (rpc' = "Ok" /\ dirExists' = dirExists /\ fs' = fs /\ log' = log)]_vars

C8_Witness ==
    /\ caller = "direct"
    /\ ~eqs[1].active
    /\ ret = "Ok"
    /\ fs = EarlierRun
    /\ ToolRuns = <<>>

\* C9: render_equations calls render on the active records only, in list
\* order and each at most once (the calls so far are always a prefix of the
\* active records in list order); a render is called only when the one
\* before has returned, and every effect in between belongs to the record
\* called last; when render_equations returns Ok every active record was
\* rendered; without an active record it returns Ok and starts no tool.
C9_SequentialInOrder ==
    caller = "render_equations" =>
        /\ IsPrefix(CalledRefs, ActiveInOrder)
        /\ \A p \in DOMAIN log :
              IF log[p].ev = "render"
              THEN p = 1 \/ (log[p - 1].ev = "return" /\ log[p - 1].i # log[p].i)
              ELSE p > 1 /\ log[p - 1].ev # "return" /\ log[p - 1].i = log[p].i
        /\ ret = "Ok" =>
              /\ CalledRefs = ActiveInOrder
              /\ log # <<>> => log[Len(log)].ev = "return"
        /\ ActiveInOrder = <<>> => (log = <<>> /\ ret # "Err")

C9_Witness ==
    /\ caller = "render_equations"
    /\ ret = "Ok"
    /\ Len(eqs) = 3
    /\ eqs[1].active /\ ~eqs[2].active /\ eqs[3].active
    /\ CalledRefs = <<1, 3>>
    /\ Len(ToolRuns) = 4

\* An effect of the log that is an I/O error or an external-tool failure.
IsFailure(e) ==
    \/ e.ev \in {"create_dir_all", "write"} /\ e.res = "failed"
    \/ e.ev \in {"tectonic", "pdftocairo"} /\ e.res \in {"spawn_failed", "exit_nonzero"}

\* C10: render_equations stops at the first record whose render meets an I/O
\* error or a tool failure: nothing of a later record follows the failure in
\* the history, and the call does not return Ok.
C10_StopsAtFirstFailure ==
    caller = "render_equations" =>
        \A p \in DOMAIN log :
            IsFailure(log[p]) =>
                /\ \A q \in DOMAIN log : q > p => log[q].i = log[p].i
                /\ ret # "Ok"

\* The files of the record render runs on.
CurFile(ext) == <<Cur.name, ext>>

\* C11: whenever render returns Ok for an active record, the directory holds
\* {name}.svg, and {name}.tex and {name}.pdf are absent if
\* delete_intermediates was set and present otherwise.
C11_ArtifactsAfterSuccess ==
    (rpc = "Ok" /\ Cur.active) =>
        /\ CurFile("svg") \in fs
        /\ del => (CurFile("tex") \notin fs /\ CurFile("pdf") \notin fs)
        /\ ~del => (CurFile("tex") \in fs /\ CurFile("pdf") \in fs)

\* The effects of the render in progress or just returned: the log from the
\* last call of render on.
LastCall == CHOOSE p \in DOMAIN log :
               log[p].ev = "render" /\ \A q \in DOMAIN log : q > p => log[q].ev # "render"
ThisRender == SubSeq(log, LastCall, Len(log))

\* The rank of an effect in the order of render's steps.
StepRank(ev) ==
    CASE ev = "render" -> 0
      [] ev = "create_dir_all" -> 1
      [] ev = "write" -> 2
      [] ev = "tectonic" -> 3
      [] ev = "pdftocairo" -> 4
      [] ev = "remove_file" -> 5
      [] OTHER -> 6

\* C13: within one render of an active record the steps happen in the order
\* create_dir_all, write of {name}.tex, compiler, converter, removal, each
\* at most once and none skipped; the converter is started only after the
\* compiler exited with success; the intermediates are removed only after
\* the converter succeeded and only when delete_intermediates is set; and
\* when the render has returned after a failed compile or a failed
\* conversion, {name}.tex is still there.
C13_StepOrder ==
    (log # <<>> /\ caller # "none") =>
        LET r == ThisRender
        IN /\ \A k \in 2..Len(r) :
                 r[k].ev # "return" => StepRank(r[k].ev) = StepRank(r[k - 1].ev) + 1
           /\ \A k \in 2..Len(r) :
                 /\ r[k].ev = "tectonic" => r[k - 1].res = "ok"
                 /\ r[k].ev = "pdftocairo" => r[k - 1].res = "exit_zero"
                 /\ r[k].ev = "remove_file" => (r[k - 1].res = "exit_zero" /\ del)
                 /\ (/\ r[k].ev \in {"tectonic", "pdftocairo"}
                     /\ r[k].res \in {"spawn_failed", "exit_nonzero"}
                     /\ rpc \in {"Ok", "Err"})
                       => <<eqs[r[k].i].name, "tex">> \in fs

C13_Witness ==
    /\ caller = "render_equations"
    /\ del
    /\ rpc = "Err"
    /\ Len(ThisRender) = 5
    /\ ThisRender[4].res = "exit_zero"
    /\ ThisRender[5].ev = "pdftocairo"
    /\ ThisRender[5].res = "exit_nonzero"
    /\ CurFile("tex") \in fs

\* ------------------------------------------------- the claims on run_cli
EndsWith(s, suffix) ==
    /\ Len(s) >= Len(suffix)
    /\ SubSeq(s, Len(s) - Len(suffix) + 1, Len(s)) = suffix

\* The file name is a non-empty stem followed by "." and the extension.
HasExtension(p, ext) ==
    /\ FileName(p).some
    /\ EndsWith(FileName(p).val, Dot \o ext)
    /\ Len(FileName(p).val) > Len(ext) + 1

\* detect_file_type follows the extension alone, case-sensitively.
ClassifiesByExtension ==
    /\ detect_file_type(path) = "Csv" <=> HasExtension(path, Csv)
    /\ detect_file_type(path) = "Markdown" <=>
          (HasExtension(path, Md) \/ HasExtension(path, Markdown))
    /\ detect_file_type(path) \in {"Csv", "Markdown", "Unknown"}

\* C12 as stated: detect_file_type follows the extension alone,
\* case-sensitively, and for an Unknown file run_cli returns the
\* unsupported-format error without parsing or rendering anything.
C12_UnknownIsUnsupported ==
    /\ ClassifiesByExtension
    /\ (cpc = "done" /\ detect_file_type(path) = "Unknown") =>
          /\ cret = "Unsupported"
          /\ did \cap {"read_csv_file", "parse_markdown", "render_equations"} = {}
          /\ log = <<>>

\* C12 amended: the same, but run_cli first creates the output directory and
\* reads the input file, so for an Unknown file it returns the
\* unsupported-format error when both succeed and that I/O error otherwise,
\* in either case without parsing or rendering anything.
C12_UnknownNeverParsed ==
    /\ ClassifiesByExtension
    /\ (cpc = "done" /\ detect_file_type(path) = "Unknown") =>
          /\ cret = (IF "io_error" \in did THEN "IoErr" ELSE "Unsupported")
          /\ did \cap {"read_csv_file", "parse_markdown", "render_equations"} = {}
          /\ log = <<>>

C12_Witness ==
    /\ cpc = "done"
    /\ path = <<"a", ".", "C", "S", "V">>
    /\ cret = "Unsupported"
    /\ dirExists
    /\ text # <<>>
    /\ parsed = <<>>
    /\ log = <<>>

\* ------------------------------------------------------ the claims on the GUI
\* A thread's signal has been taken from its channel by a completion poll.
Received(w) == channels[w].received > 0

C14_WorkerState ==
    /\ Cardinality({w \in DOMAIN workers : Running(w)}) <= 1
    /\ \A w \in DOMAIN workers :
          /\ (Running(w) \/ ~Received(w)) => (processing /\ progress_rx = w)
          /\ workers[w].sent <= 1
          /\ ~Running(w) => workers[w].sent = 1
          /\ channels[w].queued + channels[w].received = workers[w].sent

C14_StartsWhileIdle ==
    Len(workers') > Len(workers) =>
        /\ ~processing
        /\ \A w \in DOMAIN workers : ~Running(w)
        /\ Len(workers') = Len(workers) + 1

\* C14: under every interleaving of frame sections, clicks, file picks and
\* thread steps, at most one render thread runs at a time: a thread is
\* started only while processing is false and no other thread runs;
\* processing is true and progress_rx holds the thread's receiver from its
\* start until a poll has received its signal; and each thread sends its
\* signal once, when it ends, and the signal is never lost.
C14_OneWorkerAtATime == []C14_WorkerState /\ [][C14_StartsWhileIdle]_vars

\* A second thread runs after the first one's signal was received, on a list
\* picked while the first was rendering, and a third list is already loaded.
C14_Witness ==
    /\ Len(workers) = 2
    /\ Running(2)
    /\ ~Running(1)
    /\ Received(1)
    /\ processing
    /\ progress_rx = 2
    /\ equations # <<>>

C15_InListOrder ==
    \A w \in DOMAIN workers :
        LET wk == workers[w]
        IN /\ Len(wk.tried) = wk.i - 1
           /\ \A k \in DOMAIN wk.tried : wk.tried[k].i = k
           /\ wk.pc \in {"send", "done"} => Len(wk.tried) = Len(wk.eqs)
           /\ wk.sent > 0 => wk.pc = "done"

C15_Handover ==
    /\ Len(workers') > Len(workers) =>
          /\ equations # <<>>
          /\ workers'[Len(workers')].eqs = equations
          /\ equations' = <<>>
    /\ (equations = <<>> /\ equations' # <<>>) => fpc = "dialogs"
    /\ \A w \in DOMAIN workers :
          channels'[w].received > channels[w].received =>
             /\ fpc = "poll"
             /\ workers[w].pc = "done"
             /\ processing' = FALSE
             /\ progress_rx' = 0
             /\ success_message' = RenderingComplete

C15_SignalReceived ==
    \A w \in 1..MaxWorkers : (Len(workers) >= w) ~> (Len(workers) >= w /\ Received(w))

\* C15: a started thread calls render on every record of its list in list
\* order, whatever the earlier calls returned, and only then sends its
\* signal; when frames keep coming and every render call returns, the signal
\* is received by a later completion poll, which sets processing to false
\* and success_message to "Rendering complete!"; the click that starts the
\* thread moves the list into it and leaves self.equations empty, which only
\* a later file pick fills again.
C15_WorkerRunsToCompletion ==
    /\ []C15_InListOrder
    /\ [][C15_Handover]_vars
    /\ C15_SignalReceived

\* The first render failed, the second record was rendered all the same, and
\* the poll has just shown the success message over an empty list.
C15_Witness ==
    /\ Len(workers) = 1
    /\ Len(workers[1].eqs) = 2
    /\ Len(workers[1].tried) = 2
    /\ workers[1].tried[1].res = "Err"
    /\ workers[1].eqs[2].active
    /\ Received(1)
    /\ fpc = "dialogs"
    /\ ~processing
    /\ success_message = RenderingComplete
    /\ equations = <<>>

NextNew == TypeChar \/ CallNew \/ NextInput
SpecNew == Init /\ [][NextNew]_vars

\* The whole program: every operation on its own input.
Next == NextNew \/ NextParse \/ NextRender \/ NextCli \/ NextGui
Spec == Init /\ [][Next]_vars

\* C3: every record Equation::new builds has a non-empty name made only of
\* characters of [A-Za-z0-9_.]: the name has the input's length unless the
\* input is empty, each character of the class is kept and each other one
\* is "_", the empty input gives "default_equation", and sanitizing the
\* name again returns it unchanged.
C3_SanitizedName ==
    ppc = "new" =>
        LET n == parsed[1].name
        IN /\ n # <<>>
           /\ \A i \in DOMAIN n : n[i] \in NameClass
           /\ text = <<>> => n = DefaultName
           /\ text # <<>> =>
                /\ Len(n) = Len(text)
                /\ \A i \in DOMAIN text :
                      n[i] = (IF text[i] \in NameClass THEN text[i] ELSE "_")
           /\ sanitize_filename(n) = n

C3_Witness ==
    /\ ppc = "new"
    /\ text = <<"a", " ", "/">>
    /\ Len(parsed) = 1
    /\ parsed[1].name = <<"a", "_", "_">>
====
